---------------------------- MODULE Spec2Model ----------------------------
(***************************************************************************)
(* Model of src/App.js: the App component of the client-ranking dashboard. *)
(*                                                                         *)
(* Strings are sequences of one-character strings, so that toLowerCase and *)
(* the template literal that joins the identity with '|' are computed and  *)
(* not assumed.  A sale record is a record whose optional fields may be    *)
(* absent from its DOMAIN (a JavaScript property that is undefined).       *)
(* Amounts (valor) are JavaScript numbers written by parseFloat; they are  *)
(* modelled as integers, or the field is absent.                           *)
(***************************************************************************)
EXTENDS Integers, Sequences, FiniteSets, TLC

VARIABLES
    isFirebaseConfigValid, \* module constant of App.js, fixed by the environment
    effectsRun,            \* the mount effect (useEffect(..., [])) has run
    authListener,          \* onAuthStateChanged has registered its callback
    db,                    \* db state: TRUE once setDb(firestore) was called
    isAuthReady,           \* isAuthReady state
    clientsSub,            \* clients subscription: "none", "listening", "failed"
    snapshotDocs,          \* docs of the snapshot most recently delivered
    snapshotCount,         \* number of snapshots delivered so far (saturates)
    clients,               \* clients state
    rankedClients,         \* value memoised by useMemo(..., [clients])
    isLoading,             \* isLoading state
    error,                 \* error state ("" is the initial, falsy value)
    page,                  \* page state
    isAdminAuthenticated,  \* isAdminAuthenticated state
    sessionIsAdminAuthed,  \* sessionStorage 'isAdminAuthed' is 'true'
    adminInputKey,         \* inputKey state of AdminKeyPromptModal
    adminError,            \* error state of AdminKeyPromptModal
    now,                   \* Date.now(), as the notice writers read it
    noticeDoc,             \* the stored document notice/config
    noticeSub,             \* notice subscription: "none", "listening", "failed"
    notice,                \* notice state
    showNoticeModal,       \* showNoticeModal state
    noticeDismissedId,     \* sessionStorage 'noticeDismissedId'
    closedNoticeIds,       \* ids of the notices the visitor closed so far
    store,                 \* the stored clients collection: <<[ref, data]>>
    nextRef,               \* the id addDoc gives to the next document
    adminPage,             \* adminPage state of AdminDashboard
    formState,             \* formState state of SalesManagement
    isSubmitting,          \* isSubmitting state of SalesManagement
    addJob,                \* the handleAddClient call waiting for addDoc
    addOutcome,            \* how the last addDoc ended: "none", "written", "failed"
    showKeyPrompt,         \* showKeyPrompt state of SalesManagement
    keyInputKey,           \* inputKey state of KeyPromptModal
    keyError,              \* error state of KeyPromptModal
    deleteJob,             \* the handleDeleteAll call waiting for the store
    deleteOutcome          \* how the last handleDeleteAll ended: "none",
                           \* "committed", "failed"

appVars == <<isFirebaseConfigValid, effectsRun, authListener, db, isAuthReady,
             clientsSub, snapshotDocs, snapshotCount, clients, rankedClients,
             isLoading, error, page, isAdminAuthenticated>>

adminModalVars == <<sessionIsAdminAuthed, adminInputKey, adminError>>

noticeVars == <<now, noticeDoc, noticeSub, notice, showNoticeModal,
                noticeDismissedId, closedNoticeIds>>

salesVars == <<store, nextRef, adminPage, formState, isSubmitting, addJob,
               addOutcome, showKeyPrompt, keyInputKey, keyError, deleteJob,
               deleteOutcome>>

vars == <<isFirebaseConfigValid, effectsRun, authListener, db, isAuthReady,
          clientsSub, snapshotDocs, snapshotCount, clients, rankedClients,
          isLoading, error, page, isAdminAuthenticated, adminModalVars,
          noticeVars, salesVars>>

----------------------------------------------------------------------------
(* Bounds of the environment *)

\* most documents in a snapshot of freely named sales
MaxDocs == 3

\* most documents in a snapshot of sales of pairwise distinct clients
MaxCrowd == 12

\* documents of distinct clients that the first snapshot may hold
CrowdBase == 8

\* snapshotCount stops counting here
CountCap == 2

\* largest value of Date.now() a notice writer reads
MaxClock == 3

\* largest number of documents in the stored clients collection
MaxStore == 2

(* Program constants *)

\* slice(0, 10)
TopN == 10

\* index < 3 in RankingPanel
VisibleCount == 3

ADMIN_KEY == "aK7pL3sR9jVcBmN5wXyZ2oDqE"

ERR_CONFIG == "ERRO: A configuracao do Firebase e invalida."

ERR_INIT == "Falha critica ao inicializar o Firebase."

ERR_ADMIN_KEY == "Chave de acesso incorreta!"

SECRET_KEY == "H4gT8wNfPzS6jL1xVbK3dZmM7"

ERR_SECRET_KEY == "Chave de seguranca incorreta!"

ERR_CLIENTS == "Erro ao carregar o ranking."

----------------------------------------------------------------------------
(* Strings *)

\* String.prototype.toLowerCase on one character
LowerChar(c) ==
    CASE c = "A" -> "a" [] c = "B" -> "b" [] c = "C" -> "c" [] c = "D" -> "d"
      [] c = "E" -> "e" [] c = "F" -> "f" [] c = "G" -> "g" [] c = "U" -> "u"
      [] c = "X" -> "x" [] OTHER -> c

ToLowerCase(s) == [i \in 1..Len(s) |-> LowerChar(s[i])]

\* what a template literal renders for a property that is undefined
UndefinedText == <<"u", "n", "d", "e", "f", "i", "n", "e", "d">>

\* ${sale[f]} inside a template literal
TemplateText(sale, f) == IF f \in DOMAIN sale THEN sale[f] ELSE UndefinedText

\* sale.instagram || ''
InstagramOrEmpty(sale) ==
    IF "instagram" \in DOMAIN sale THEN sale.instagram ELSE <<>>

\* sale.valor || 0
ValorOrZero(sale) == IF "valor" \in DOMAIN sale THEN sale.valor ELSE 0

----------------------------------------------------------------------------
(* rankedClients: the reduce over clients, the sort and the slice *)

\* the key without the toLowerCase call
IdentifierCaseSensitive(sale) ==
    TemplateText(sale, "firstName") \o <<"|">> \o
    TemplateText(sale, "lastName") \o <<"|">> \o InstagramOrEmpty(sale)

\* `${sale.firstName}|${sale.lastName}|${sale.instagram || ''}`.toLowerCase()
Identifier(sale) ==
    ToLowerCase(TemplateText(sale, "firstName") \o <<"|">> \o
                TemplateText(sale, "lastName") \o <<"|">> \o
                InstagramOrEmpty(sale))

NameFields == {"firstName", "lastName", "instagram"}

\* { firstName: sale.firstName, lastName: sale.lastName,
\*   instagram: sale.instagram, totalValor: 0, id: identifier }
NewEntry(sale, identifier) ==
    [f \in (DOMAIN sale \cap NameFields) \cup {"totalValor", "id"} |->
        CASE f = "totalValor" -> 0
          [] f = "id" -> identifier
          [] OTHER -> sale[f]]

HasKey(acc, identifier) == \E i \in 1..Len(acc) : acc[i].id = identifier

\* the reduce callback with = in place of +=
AccumulateAssign(acc, sale) ==
    LET identifier == Identifier(sale)
        acc1 == IF HasKey(acc, identifier) THEN acc
                ELSE Append(acc, NewEntry(sale, identifier))
    IN  [i \in 1..Len(acc1) |->
            IF acc1[i].id = identifier
            THEN [acc1[i] EXCEPT !["totalValor"] = ValorOrZero(sale)]
            ELSE acc1[i]]

\* the reduce callback that rebuilds the entry from every sale of the key
AccumulateLastSeen(acc, sale) ==
    LET identifier == Identifier(sale)
        acc1 == IF HasKey(acc, identifier) THEN acc
                ELSE Append(acc, NewEntry(sale, identifier))
    IN  [i \in 1..Len(acc1) |->
            IF acc1[i].id = identifier
            THEN [NewEntry(sale, identifier) EXCEPT
                    !["totalValor"] = acc1[i].totalValor + ValorOrZero(sale)]
            ELSE acc1[i]]

\* The reduce callback.  acc is a plain object whose keys all contain '|',
\* so Object.values lists its entries in insertion order: acc is modelled as
\* the sequence of its entries in that order.
Accumulate(acc, sale) ==
    LET identifier == Identifier(sale)
        acc1 == IF HasKey(acc, identifier) THEN acc
                ELSE Append(acc, NewEntry(sale, identifier))
    IN  [i \in 1..Len(acc1) |->
            IF acc1[i].id = identifier
            THEN [acc1[i] EXCEPT !["totalValor"] = @ + ValorOrZero(sale)]
            ELSE acc1[i]]

RECURSIVE Reduce(_, _)
\* Array.prototype.reduce with Accumulate as the callback
Reduce(sales, acc) ==
    IF sales = <<>> THEN acc
    ELSE Reduce(Tail(sales), Accumulate(acc, Head(sales)))

\* clientTotals, as Object.values(clientTotals) lists it
ClientTotals(sales) == Reduce(sales, <<>>)

\* the comparator with its operands swapped
CompareAscending(a, b) == a.totalValor - b.totalValor

\* (a, b) => b.totalValor - a.totalValor
Compare(a, b) == b.totalValor - a.totalValor

\* first position of sorted whose element must follow e; Len + 1 if none
RECURSIVE InsertionPoint(_, _, _)
InsertionPoint(sorted, e, i) ==
    IF i > Len(sorted) THEN i
    ELSE IF Compare(sorted[i], e) > 0 THEN i
    ELSE InsertionPoint(sorted, e, i + 1)

\* an insertion that puts e in front of the entries it ties with
InsertBeforeTies(sorted, e) ==
    LET P == {i \in 1..Len(sorted) : Compare(sorted[i], e) >= 0}
        k == IF P = {} THEN Len(sorted) + 1
             ELSE CHOOSE i \in P : \A j \in P : i <= j
    IN  SubSeq(sorted, 1, k - 1) \o <<e>> \o SubSeq(sorted, k, Len(sorted))

\* One step of Array.prototype.sort, which is stable (ECMAScript 2019):
\* e goes behind every entry the comparator does not order after it.
InsertSorted(sorted, e) ==
    LET k == InsertionPoint(sorted, e, 1)
    IN  SubSeq(sorted, 1, k - 1) \o <<e>> \o SubSeq(sorted, k, Len(sorted))

RECURSIVE SortFrom(_, _)
SortFrom(rest, sorted) ==
    IF rest = <<>> THEN sorted
    ELSE SortFrom(Tail(rest), InsertSorted(sorted, Head(rest)))

\* .sort((a, b) => b.totalValor - a.totalValor)
Sort(entries) == SortFrom(entries, <<>>)

\* a slice that keeps one entry too many
SliceOffByOne(entries) ==
    SubSeq(entries, 1, IF Len(entries) < TopN + 1 THEN Len(entries) ELSE TopN + 1)

\* .slice(0, 10)
Slice(entries) ==
    SubSeq(entries, 1, IF Len(entries) < TopN THEN Len(entries) ELSE TopN)

\* the function memoised as rankedClients
RankedClientsMemo(sales) == Slice(Sort(ClientTotals(sales)))

----------------------------------------------------------------------------
(* Components *)

\* Number.prototype.toFixed(2) of an amount: its digits and the two decimals
ToFixed2(n) == [int |-> n, frac |-> <<"0", "0">>]

\* What RankingPanel renders from its clients prop: the empty message, or one
\* item per client, whose amount line is the formatted total when index < 3
\* and the "Valor Privado" text otherwise.  index is 0-based in the source.
RankingPanel(props) ==
    IF Len(props.clients) = 0
    THEN [empty |-> TRUE, items |-> <<>>]
    ELSE [empty |-> FALSE,
          items |-> [i \in 1..Len(props.clients) |->
              LET client == props.clients[i]
                  index == i - 1
              IN  [rank |-> index + 1,
                   key |-> client.id,
                   amount |-> IF index < VisibleCount
                              THEN [private |-> FALSE,
                                    text |-> ToFixed2(client.totalValor)]
                              ELSE [private |-> TRUE,
                                    text |-> "Valor Privado"]]]]

\* a renderPage that looks at the page before it looks at the error
renderPagePageFirst ==
    IF page = "dashboard" /\ ~isLoading
    THEN IF isAdminAuthenticated
         THEN [component |-> "AdminDashboard", props |-> [allClients |-> clients]]
         ELSE [component |-> "AdminKeyPromptModal", props |-> [none |-> TRUE]]
    ELSE IF error # "" THEN [component |-> "ErrorMessage", props |-> [text |-> error]]
    ELSE IF isLoading THEN [component |-> "LoadingSpinner", props |-> [none |-> TRUE]]
    ELSE [component |-> "RankingPanel", props |-> [clients |-> rankedClients]]

\* renderPage: the component App renders below the navigation, with its props
renderPage ==
    IF error # "" THEN [component |-> "ErrorMessage", props |-> [text |-> error]]
    ELSE IF isLoading THEN [component |-> "LoadingSpinner", props |-> [none |-> TRUE]]
    ELSE IF page = "dashboard"
         THEN IF isAdminAuthenticated
              THEN [component |-> "AdminDashboard", props |-> [allClients |-> clients]]
              ELSE [component |-> "AdminKeyPromptModal", props |-> [none |-> TRUE]]
         ELSE [component |-> "RankingPanel", props |-> [clients |-> rankedClients]]

----------------------------------------------------------------------------
(* The clients collection, as the subscription delivers it *)

\* documents with freely chosen names: letter case variants, an absent and an
\* empty handle, names that hold the separator, absent and empty names,
\* an absent amount
SaleDocs ==
    { [firstName |-> <<"A", "b">>, lastName |-> <<"C">>, valor |-> 2],
      [firstName |-> <<"a", "B">>, lastName |-> <<"c">>, instagram |-> <<>>,
       valor |-> 1],
      [firstName |-> <<"A", "b">>, lastName |-> <<"C">>,
       instagram |-> <<"@", "x">>, valor |-> 3],
      [firstName |-> <<"A", "|", "b">>, lastName |-> <<"C">>, valor |-> 1],
      [firstName |-> <<"A">>, lastName |-> <<"b", "|", "C">>, valor |-> 2],
      [lastName |-> <<"C">>, valor |-> 1],
      [firstName |-> <<>>, lastName |-> <<"C">>, valor |-> 2],
      [firstName |-> <<"D">>, lastName |-> <<"E">>, instagram |-> <<"@", "x">>],
      [firstName |-> <<"D">>, lastName |-> <<"E">>, instagram |-> <<"@", "X">>,
       valor |-> 2],
      [firstName |-> <<"F">>, lastName |-> <<"G">>, valor |-> 3] }

CrowdLetters == <<"h", "i", "j", "k", "l", "m", "n", "o", "q", "r", "s", "t",
                  "v", "w">>

CrowdValues == {1, 2, 3}

\* the k-th document of a collection of pairwise distinct clients
CrowdSale(k, v) ==
    [firstName |-> <<"p">>, lastName |-> <<CrowdLetters[k]>>, valor |-> v]

\* Collections of CrowdBase distinct clients that the first snapshot may
\* find: equal amounts, two amounts in turn, three amounts in turn
CrowdStarts ==
    { [k \in 1..CrowdBase |-> CrowdSale(k, 1)],
      [k \in 1..CrowdBase |-> CrowdSale(k, 1 + (k % 2))],
      [k \in 1..CrowdBase |-> CrowdSale(k, 1 + (k % 3))] }

\* Snapshots that may follow a snapshot prev.  The first snapshot holds the
\* collection as it stands: nothing, one document, or CrowdBase documents of
\* distinct clients.  Later ones have a document added (addDoc), every
\* document deleted (the batch of handleDeleteAll), or the same documents
\* again.  A snapshot holds up to MaxDocs documents of SaleDocs or up to
\* MaxCrowd documents of pairwise distinct clients.
SnapshotsAfter(prev) ==
    IF prev = <<>>
    THEN {<<>>} \cup {<<d>> : d \in SaleDocs} \cup CrowdStarts
    ELSE IF prev[1] \in SaleDocs
    THEN {<<>>, prev}
         \cup (IF Len(prev) < MaxDocs
               THEN {Append(prev, d) : d \in SaleDocs} ELSE {})
    ELSE {<<>>, prev}
         \cup (IF Len(prev) < MaxCrowd
               THEN {Append(prev, CrowdSale(Len(prev) + 1, v)) : v \in CrowdValues}
               ELSE {})

\* snapshot.docs.map(doc => ({ id: doc.id, ...doc.data(), createdAt: ... })):
\* the fields the ranking reads are those of doc.data()
ToClients(docs) == [i \in 1..Len(docs) |-> docs[i]]

----------------------------------------------------------------------------
(* App *)

\* notice.id before any notice was read (null), and the value getItem gives
\* for a key never set
NoId == <<>>

\* docSnapshot.id of the document notice/config
DocId == <<"config">>

\* the template literal `notice-${Date.now()}`
NoticeId(t) == <<"notice-", t>>

\* the document notice/config does not exist
NoDoc == [exists |-> FALSE]

\* a document written without an id field
LegacyDoc == [exists |-> TRUE, data |-> [htmlContent |-> "aviso", isActive |-> TRUE]]

\* AdminKeyPromptModal keeps its state while renderPage mounts it, and starts
\* from useState('') whenever it is mounted again
AdminModalFrame ==
    /\ UNCHANGED sessionIsAdminAuthed
    /\ IF renderPage'.component = "AdminKeyPromptModal"
       THEN UNCHANGED <<adminInputKey, adminError>>
       ELSE adminInputKey' = "" /\ adminError' = ""

\* useState({ firstName: '', lastName: '', instagram: '', valor: '' })
EmptyForm == [firstName |-> <<>>, lastName |-> <<>>, instagram |-> <<>>,
              valor |-> <<>>]

\* no call of the handler is waiting
Idle == [stage |-> "idle"]

\* SalesManagement is on screen: renderPage gives AdminDashboard, which
\* has db and shows its 'sales' page
SalesMounted ==
    /\ renderPage.component = "AdminDashboard"
    /\ db
    /\ adminPage = "sales"

\* a call still waiting when its component is unmounted: it goes on, and its
\* setState calls reach no component
Orphaned(job) ==
    IF job.stage = "idle" THEN job ELSE [job EXCEPT !.mounted = FALSE]

\* SalesManagement and its KeyPromptModal keep their state while mounted and
\* start from their useState values when mounted again
SalesLocalsFrame ==
    IF SalesMounted'
    THEN UNCHANGED <<formState, isSubmitting, addJob, showKeyPrompt,
                     keyInputKey, keyError, deleteJob>>
    ELSE /\ formState' = EmptyForm
         /\ isSubmitting' = FALSE
         /\ showKeyPrompt' = FALSE
         /\ keyInputKey' = ""
         /\ keyError' = ""
         /\ addJob' = Orphaned(addJob)
         /\ deleteJob' = Orphaned(deleteJob)

\* a step outside AdminDashboard: the store is not written, adminPage is kept
\* while the dashboard is rendered and starts from 'sales' otherwise
SalesFrame ==
    /\ UNCHANGED <<store, nextRef, addOutcome, deleteOutcome>>
    /\ adminPage' = IF renderPage'.component = "AdminDashboard"
                    THEN adminPage ELSE "sales"
    /\ SalesLocalsFrame

InitApp ==
    /\ isFirebaseConfigValid \in BOOLEAN
    /\ effectsRun = FALSE
    /\ authListener = FALSE
    /\ db = FALSE
    /\ isAuthReady = FALSE
    /\ clientsSub = "none"
    /\ snapshotDocs = <<>>
    /\ snapshotCount = 0
    /\ clients = <<>>
    /\ rankedClients = RankedClientsMemo(<<>>)
    /\ isLoading = TRUE
    /\ error = ""
    /\ page = "ranking"
    /\ sessionIsAdminAuthed \in BOOLEAN
    /\ isAdminAuthenticated = sessionIsAdminAuthed
    /\ adminInputKey = ""
    /\ adminError = ""
    /\ noticeSub = "none"
    /\ notice = [htmlContent |-> "", isActive |-> FALSE, id |-> NoId]
    /\ showNoticeModal = FALSE
    /\ adminPage = "sales"
    /\ formState = EmptyForm
    /\ isSubmitting = FALSE
    /\ addJob = Idle
    /\ addOutcome = "none"
    /\ showKeyPrompt = FALSE
    /\ keyInputKey = ""
    /\ keyError = ""
    /\ deleteJob = Idle
    /\ deleteOutcome = "none"

\* a tab session that dismissed no notice, and no notice stored
NoNotice ==
    /\ now = 0
    /\ noticeDoc = NoDoc
    /\ noticeDismissedId = NoId
    /\ closedNoticeIds = {}

\* the stored clients collection is empty
EmptyStore ==
    /\ store = <<>>
    /\ nextRef = 1

\* the state after construction
Init ==
    /\ InitApp
    /\ NoNotice
    /\ EmptyStore

\* mount effect, configuration invalid
InitEffectInvalidConfig ==
    /\ ~effectsRun
    /\ ~isFirebaseConfigValid
    /\ effectsRun' = TRUE
    /\ error' = ERR_CONFIG
    /\ isLoading' = FALSE
    /\ UNCHANGED <<isFirebaseConfigValid, authListener, db, isAuthReady,
                   clientsSub, snapshotDocs, snapshotCount, clients,
                   rankedClients, page, isAdminAuthenticated>>
    /\ AdminModalFrame
    /\ UNCHANGED noticeVars
    /\ SalesFrame

\* mount effect, the try block ran to its end
InitEffectOk ==
    /\ ~effectsRun
    /\ isFirebaseConfigValid
    /\ effectsRun' = TRUE
    /\ db' = TRUE
    /\ authListener' = TRUE
    /\ UNCHANGED <<isFirebaseConfigValid, isAuthReady, clientsSub,
                   snapshotDocs, snapshotCount, clients, rankedClients,
                   isLoading, error, page, isAdminAuthenticated>>
    /\ AdminModalFrame
    /\ UNCHANGED noticeVars
    /\ SalesFrame

\* mount effect, a call of the try block threw: before setDb or after it
InitEffectThrows(dbWasSet) ==
    /\ ~effectsRun
    /\ isFirebaseConfigValid
    /\ effectsRun' = TRUE
    /\ db' = dbWasSet
    /\ error' = ERR_INIT
    /\ isLoading' = FALSE
    /\ UNCHANGED <<isFirebaseConfigValid, authListener, isAuthReady,
                   clientsSub, snapshotDocs, snapshotCount, clients,
                   rankedClients, page, isAdminAuthenticated>>
    /\ AdminModalFrame
    /\ UNCHANGED noticeVars
    /\ SalesFrame

\* callback of onAuthStateChanged; signInOk: signInAnonymously resolved
OnAuthStateChanged(user, signInOk) ==
    /\ authListener
    /\ isAuthReady' = (isAuthReady \/ user \/ signInOk)
    /\ UNCHANGED <<isFirebaseConfigValid, effectsRun, authListener, db,
                   clientsSub, snapshotDocs, snapshotCount, clients,
                   rankedClients, isLoading, error, page,
                   isAdminAuthenticated>>
    /\ AdminModalFrame
    /\ UNCHANGED noticeVars
    /\ SalesFrame

\* effect of [isAuthReady, db]: the subscriptions are made
SubscribeEffect ==
    /\ isAuthReady
    /\ db
    /\ clientsSub = "none"
    /\ clientsSub' = "listening"
    /\ UNCHANGED <<isFirebaseConfigValid, effectsRun, authListener, db,
                   isAuthReady, snapshotDocs, snapshotCount, clients,
                   rankedClients, isLoading, error, page,
                   isAdminAuthenticated>>
    /\ AdminModalFrame
    /\ noticeSub' = "listening"
    /\ UNCHANGED <<now, noticeDoc, notice, showNoticeModal, noticeDismissedId,
                   closedNoticeIds>>
    /\ SalesFrame

\* a snapshot handler that leaves the memoised ranking as it was
OnClientsSnapshotStaleMemo(docs) ==
    /\ clientsSub = "listening"
    /\ snapshotDocs' = docs
    /\ snapshotCount' = IF snapshotCount < CountCap THEN snapshotCount + 1
                        ELSE snapshotCount
    /\ clients' = ToClients(docs)
    /\ isLoading' = FALSE
    /\ UNCHANGED <<isFirebaseConfigValid, effectsRun, authListener, db,
                   isAuthReady, clientsSub, rankedClients, error, page,
                   isAdminAuthenticated>>
    /\ AdminModalFrame
    /\ UNCHANGED noticeVars
    /\ SalesFrame

\* next callback of the clients subscription, and the render that follows
OnClientsSnapshot(docs) ==
    /\ clientsSub = "listening"
    /\ snapshotDocs' = docs
    /\ snapshotCount' = IF snapshotCount < CountCap THEN snapshotCount + 1
                        ELSE snapshotCount
    /\ clients' = ToClients(docs)
    /\ rankedClients' = RankedClientsMemo(clients')
    /\ isLoading' = FALSE
    /\ UNCHANGED <<isFirebaseConfigValid, effectsRun, authListener, db,
                   isAuthReady, clientsSub, error, page, isAdminAuthenticated>>
    /\ AdminModalFrame
    /\ UNCHANGED noticeVars
    /\ SalesFrame

\* error callback of the clients subscription; the listener ends with it
OnClientsError ==
    /\ clientsSub = "listening"
    /\ clientsSub' = "failed"
    /\ error' = ERR_CLIENTS
    /\ isLoading' = FALSE
    /\ UNCHANGED <<isFirebaseConfigValid, effectsRun, authListener, db,
                   isAuthReady, snapshotDocs, snapshotCount, clients,
                   rankedClients, page, isAdminAuthenticated>>
    /\ AdminModalFrame
    /\ UNCHANGED noticeVars
    /\ SalesFrame

\* what a visitor can have in the input of AdminKeyPromptModal: the key, the
\* key followed by a blank, another text, nothing
AdminInputs == {ADMIN_KEY, "aK7pL3sR9jVcBmN5wXyZ2oDqE ", "12345", ""}

\* setPage, from the navigation, the Admin button or the prompt's cancel
SetPage(p) ==
    /\ page' = p
    /\ UNCHANGED <<isFirebaseConfigValid, effectsRun, authListener, db,
                   isAuthReady, clientsSub, snapshotDocs, snapshotCount,
                   clients, rankedClients, isLoading, error,
                   isAdminAuthenticated>>
    /\ AdminModalFrame
    /\ UNCHANGED noticeVars
    /\ SalesFrame

\* onChange of the input of AdminKeyPromptModal
AdminInputChange(value) ==
    /\ renderPage.component = "AdminKeyPromptModal"
    /\ adminInputKey' = value
    /\ adminError' = ""
    /\ UNCHANGED <<isFirebaseConfigValid, effectsRun, authListener, db,
                   isAuthReady, clientsSub, snapshotDocs, snapshotCount,
                   clients, rankedClients, isLoading, error, page,
                   isAdminAuthenticated, sessionIsAdminAuthed>>
    /\ UNCHANGED noticeVars
    /\ SalesFrame

\* a handleConfirm that accepts whatever was typed
AdminKeyConfirmAnyKey ==
    /\ renderPage.component = "AdminKeyPromptModal"
    /\ IF adminInputKey # ""
       THEN /\ sessionIsAdminAuthed' = TRUE
            /\ isAdminAuthenticated' = TRUE
            /\ adminInputKey' = ""
            /\ adminError' = ""
       ELSE /\ adminError' = ERR_ADMIN_KEY
            /\ adminInputKey' = ""
            /\ UNCHANGED <<isAdminAuthenticated, sessionIsAdminAuthed>>
    /\ UNCHANGED <<isFirebaseConfigValid, effectsRun, authListener, db,
                   isAuthReady, clientsSub, snapshotDocs, snapshotCount,
                   clients, rankedClients, isLoading, error, page>>
    /\ UNCHANGED noticeVars
    /\ SalesFrame

\* handleConfirm of AdminKeyPromptModal (button or Enter): the right key calls
\* handleAdminLogin, after which the prompt is no longer mounted
AdminKeyConfirm ==
    /\ renderPage.component = "AdminKeyPromptModal"
    /\ IF adminInputKey = ADMIN_KEY
       THEN /\ sessionIsAdminAuthed' = TRUE
            /\ isAdminAuthenticated' = TRUE
            /\ adminInputKey' = ""
            /\ adminError' = ""
       ELSE /\ adminError' = ERR_ADMIN_KEY
            /\ adminInputKey' = ""
            /\ UNCHANGED <<isAdminAuthenticated, sessionIsAdminAuthed>>
    /\ UNCHANGED <<isFirebaseConfigValid, effectsRun, authListener, db,
                   isAuthReady, clientsSub, snapshotDocs, snapshotCount,
                   clients, rankedClients, isLoading, error, page>>
    /\ UNCHANGED noticeVars
    /\ SalesFrame

Next ==
    \/ InitEffectInvalidConfig
    \/ InitEffectOk
    \/ \E dbWasSet \in BOOLEAN : InitEffectThrows(dbWasSet)
    \/ \E user \in BOOLEAN, signInOk \in BOOLEAN : OnAuthStateChanged(user, signInOk)
    \/ SubscribeEffect
    \/ \E docs \in SnapshotsAfter(snapshotDocs) : OnClientsSnapshot(docs)
    \/ OnClientsError
    \/ \E p \in {"ranking", "dashboard"} : SetPage(p)
    \/ \E value \in AdminInputs : AdminInputChange(value)
    \/ AdminKeyConfirm

Spec == Init /\ [][Next]_vars

----------------------------------------------------------------------------
(* The global notice *)

\* noticeData = { id: docSnapshot.id, ...docSnapshot.data() }: the id field of
\* the data, when there is one, replaces the id of the document; an absent
\* isActive is read as falsy
NoticeData(data) ==
    [htmlContent |-> IF "htmlContent" \in DOMAIN data THEN data.htmlContent ELSE "",
     isActive |-> IF "isActive" \in DOMAIN data THEN data.isActive ELSE FALSE,
     id |-> IF "id" \in DOMAIN data THEN data.id ELSE DocId]

\* isActive state of NoticeManagement, which its own subscription sets from
\* the stored document (data.isActive || false)
WriterIsActive ==
    IF noticeDoc.exists THEN NoticeData(noticeDoc.data).isActive ELSE FALSE

\* the tab session starts with no notice dismissed or with one dismissed
\* before a reload, and the store with no notice or with one without id field
InitNotice ==
    /\ InitApp
    /\ now = 0
    /\ noticeDoc \in {NoDoc, LegacyDoc}
    /\ noticeDismissedId \in {NoId, DocId}
    /\ closedNoticeIds = IF noticeDismissedId = NoId THEN {} ELSE {noticeDismissedId}
    /\ EmptyStore

\* NoticeManagement.handleSave of an administrator, in this tab or another:
\* setDoc with merge writes the content, the flag and a new id; t is
\* Date.now(), ok tells whether setDoc resolved
NoticeHandleSave(toggle, t, ok) ==
    /\ now' = t
    /\ LET newIsActive == IF toggle THEN ~WriterIsActive ELSE WriterIsActive
       IN  noticeDoc' = IF ok
                        THEN [exists |-> TRUE,
                              data |-> [htmlContent |-> "aviso",
                                        isActive |-> newIsActive,
                                        id |-> NoticeId(t)]]
                        ELSE noticeDoc
    /\ UNCHANGED <<isFirebaseConfigValid, effectsRun, authListener, db,
                   isAuthReady, clientsSub, snapshotDocs, snapshotCount,
                   clients, rankedClients, isLoading, error, page,
                   isAdminAuthenticated, adminModalVars>>
    /\ UNCHANGED <<noticeSub, notice, showNoticeModal, noticeDismissedId,
                   closedNoticeIds>>
    /\ SalesFrame

\* a snapshot handler that does not look at the dismissed id
OnNoticeSnapshotIgnoresDismissal ==
    /\ noticeSub = "listening"
    /\ IF noticeDoc.exists
       THEN LET noticeData == NoticeData(noticeDoc.data)
            IN  /\ notice' = noticeData
                /\ showNoticeModal' = IF noticeData.isActive
                                       THEN TRUE ELSE showNoticeModal
       ELSE UNCHANGED <<notice, showNoticeModal>>
    /\ UNCHANGED <<isFirebaseConfigValid, effectsRun, authListener, db,
                   isAuthReady, clientsSub, snapshotDocs, snapshotCount,
                   clients, rankedClients, isLoading, error, page,
                   isAdminAuthenticated, adminModalVars>>
    /\ UNCHANGED <<now, noticeDoc, noticeSub, noticeDismissedId,
                   closedNoticeIds>>
    /\ SalesFrame

\* next callback of the notice subscription, given the stored document
OnNoticeSnapshot ==
    /\ noticeSub = "listening"
    /\ IF noticeDoc.exists
       THEN LET noticeData == NoticeData(noticeDoc.data)
                isDismissed == noticeDismissedId = noticeData.id
            IN  /\ notice' = noticeData
                /\ showNoticeModal' = IF noticeData.isActive /\ ~isDismissed
                                       THEN TRUE ELSE showNoticeModal
       ELSE UNCHANGED <<notice, showNoticeModal>>
    /\ UNCHANGED <<isFirebaseConfigValid, effectsRun, authListener, db,
                   isAuthReady, clientsSub, snapshotDocs, snapshotCount,
                   clients, rankedClients, isLoading, error, page,
                   isAdminAuthenticated, adminModalVars>>
    /\ UNCHANGED <<now, noticeDoc, noticeSub, noticeDismissedId,
                   closedNoticeIds>>
    /\ SalesFrame

\* error callback of the notice subscription: console.error, and the
\* listener ends with it
OnNoticeError ==
    /\ noticeSub = "listening"
    /\ noticeSub' = "failed"
    /\ UNCHANGED <<isFirebaseConfigValid, effectsRun, authListener, db,
                   isAuthReady, clientsSub, snapshotDocs, snapshotCount,
                   clients, rankedClients, isLoading, error, page,
                   isAdminAuthenticated, adminModalVars>>
    /\ UNCHANGED <<now, noticeDoc, notice, showNoticeModal, noticeDismissedId,
                   closedNoticeIds>>
    /\ SalesFrame

\* handleCloseNotice, the onClose of NoticeModal
HandleCloseNotice ==
    /\ showNoticeModal
    /\ showNoticeModal' = FALSE
    /\ noticeDismissedId' = notice.id
    /\ closedNoticeIds' = closedNoticeIds \cup {notice.id}
    /\ UNCHANGED <<isFirebaseConfigValid, effectsRun, authListener, db,
                   isAuthReady, clientsSub, snapshotDocs, snapshotCount,
                   clients, rankedClients, isLoading, error, page,
                   isAdminAuthenticated, adminModalVars>>
    /\ UNCHANGED <<now, noticeDoc, noticeSub, notice>>
    /\ SalesFrame

NextNotice ==
    \/ InitEffectInvalidConfig
    \/ InitEffectOk
    \/ \E dbWasSet \in BOOLEAN : InitEffectThrows(dbWasSet)
    \/ \E user \in BOOLEAN, signInOk \in BOOLEAN : OnAuthStateChanged(user, signInOk)
    \/ SubscribeEffect
    \/ OnClientsError
    \/ \E toggle \in BOOLEAN, ok \in BOOLEAN :
           \E t \in {u \in {now, now + 1} : u <= MaxClock} :
               NoticeHandleSave(toggle, t, ok)
    \/ OnNoticeSnapshot
    \/ OnNoticeError
    \/ HandleCloseNotice

SpecNotice == InitNotice /\ [][NextNotice]_vars

----------------------------------------------------------------------------
(* AdminDashboard and SalesManagement: the deletion of the sale records *)

\* snapshot.docs of the stored collection
StoreDocs(stored) == [i \in 1..Len(stored) |-> stored[i].data]

\* the store holds up to MaxStore sale records of distinct clients
InitialStores ==
    { [i \in 1..n |-> [ref |-> i, data |-> CrowdSale(i, i)]] : n \in 0..MaxStore }

InitDelete ==
    /\ InitApp
    /\ NoNotice
    /\ store \in InitialStores
    /\ nextRef = Len(store) + 1

\* setAdminPage, from AdminNav
SetAdminPage(p) ==
    /\ renderPage.component = "AdminDashboard"
    /\ db
    /\ adminPage' = p
    /\ UNCHANGED <<appVars, adminModalVars, noticeVars>>
    /\ UNCHANGED <<store, nextRef, addOutcome, deleteOutcome>>
    /\ SalesLocalsFrame

\* the button 'Apagar historico': setShowKeyPrompt(true)
ShowKeyPromptClick ==
    /\ SalesMounted
    /\ ~showKeyPrompt
    /\ showKeyPrompt' = TRUE
    /\ UNCHANGED <<appVars, adminModalVars, noticeVars>>
    /\ UNCHANGED <<store, nextRef, adminPage, formState, isSubmitting, addJob,
                   addOutcome, keyInputKey, keyError, deleteJob, deleteOutcome>>

\* what an administrator can have in the input of KeyPromptModal: the key,
\* the key of the other prompt, nothing
KeyInputs == {SECRET_KEY, ADMIN_KEY, ""}

\* onChange of the input of KeyPromptModal
KeyInputChange(value) ==
    /\ SalesMounted
    /\ showKeyPrompt
    /\ keyInputKey' = value
    /\ keyError' = ""
    /\ UNCHANGED <<appVars, adminModalVars, noticeVars>>
    /\ UNCHANGED <<store, nextRef, adminPage, formState, isSubmitting, addJob,
                   addOutcome, showKeyPrompt, deleteJob, deleteOutcome>>

\* a handleConfirm that calls onConfirm whatever was typed
KeyPromptConfirmAnyKey ==
    /\ SalesMounted
    /\ showKeyPrompt
    /\ deleteJob = Idle
    /\ deleteJob' = IF db THEN [stage |-> "getDocs", mounted |-> TRUE]
                    ELSE deleteJob
    /\ UNCHANGED keyError
    /\ UNCHANGED <<appVars, adminModalVars, noticeVars>>
    /\ UNCHANGED <<store, nextRef, adminPage, formState, isSubmitting, addJob,
                   addOutcome, showKeyPrompt, keyInputKey, deleteOutcome>>

\* handleConfirm of KeyPromptModal: with the right key it calls
\* handleDeleteAll, which runs up to its first await; one call of
\* handleDeleteAll is in progress at a time
KeyPromptConfirm ==
    /\ SalesMounted
    /\ showKeyPrompt
    /\ IF keyInputKey = SECRET_KEY
       THEN /\ deleteJob = Idle
            /\ deleteJob' = IF db THEN [stage |-> "getDocs", mounted |-> TRUE]
                            ELSE deleteJob
            /\ UNCHANGED keyError
       ELSE /\ keyError' = ERR_SECRET_KEY
            /\ UNCHANGED deleteJob
    /\ UNCHANGED <<appVars, adminModalVars, noticeVars>>
    /\ UNCHANGED <<store, nextRef, adminPage, formState, isSubmitting, addJob,
                   addOutcome, showKeyPrompt, keyInputKey, deleteOutcome>>

\* onCancel of KeyPromptModal: setShowKeyPrompt(false)
KeyPromptCancel ==
    /\ SalesMounted
    /\ showKeyPrompt
    /\ showKeyPrompt' = FALSE
    /\ keyInputKey' = ""
    /\ keyError' = ""
    /\ UNCHANGED <<appVars, adminModalVars, noticeVars>>
    /\ UNCHANGED <<store, nextRef, adminPage, formState, isSubmitting, addJob,
                   addOutcome, deleteJob, deleteOutcome>>

\* the end of handleDeleteAll, after the try block or its catch:
\* setShowKeyPrompt(false), which reaches the component if it is still mounted
DeleteAllEnds(outcome) ==
    /\ deleteJob' = Idle
    /\ deleteOutcome' = outcome
    /\ IF deleteJob.mounted
       THEN /\ showKeyPrompt' = FALSE
            /\ keyInputKey' = ""
            /\ keyError' = ""
       ELSE UNCHANGED <<showKeyPrompt, keyInputKey, keyError>>

\* handleDeleteAll: getDocs resolved with the documents stored, or rejected
DeleteAllGetDocs(ok) ==
    /\ deleteJob.stage = "getDocs"
    /\ IF ok
       THEN /\ deleteJob' = [stage |-> "commit", mounted |-> deleteJob.mounted,
                              snap |-> {store[i].ref : i \in 1..Len(store)}]
            /\ UNCHANGED <<showKeyPrompt, keyInputKey, keyError, deleteOutcome>>
       ELSE DeleteAllEnds("failed")
    /\ UNCHANGED <<appVars, adminModalVars, noticeVars>>
    /\ UNCHANGED <<store, nextRef, adminPage, formState, isSubmitting, addJob,
                   addOutcome>>

\* handleDeleteAll: batch.commit resolved, deleting the documents getDocs
\* gave, or rejected
DeleteAllCommit(ok) ==
    /\ deleteJob.stage = "commit"
    /\ store' = IF ok
                THEN SelectSeq(store, LAMBDA d : d.ref \notin deleteJob.snap)
                ELSE store
    /\ DeleteAllEnds(IF ok THEN "committed" ELSE "failed")
    /\ UNCHANGED <<appVars, adminModalVars, noticeVars>>
    /\ UNCHANGED <<nextRef, adminPage, formState, isSubmitting, addJob,
                   addOutcome>>

NextDelete ==
    \/ InitEffectInvalidConfig
    \/ InitEffectOk
    \/ \E dbWasSet \in BOOLEAN : InitEffectThrows(dbWasSet)
    \/ \E user \in BOOLEAN, signInOk \in BOOLEAN : OnAuthStateChanged(user, signInOk)
    \/ SubscribeEffect
    \/ OnClientsSnapshot(StoreDocs(store))
    \/ OnClientsError
    \/ \E p \in {"ranking", "dashboard"} : SetPage(p)
    \/ \E value \in AdminInputs : AdminInputChange(value)
    \/ AdminKeyConfirm
    \/ \E p \in {"sales", "notice", "whatsapp"} : SetAdminPage(p)
    \/ ShowKeyPromptClick
    \/ \E value \in KeyInputs : KeyInputChange(value)
    \/ KeyPromptConfirm
    \/ KeyPromptCancel
    \/ \E ok \in BOOLEAN : DeleteAllGetDocs(ok)
    \/ \E ok \in BOOLEAN : DeleteAllCommit(ok)

SpecDelete == InitDelete /\ [][NextDelete]_vars

----------------------------------------------------------------------------
(* SalesManagement: the registration of a sale *)

\* String.prototype.trim: blanks are taken off both ends
RECURSIVE TrimStart(_)
TrimStart(s) ==
    IF s # <<>> /\ Head(s) = " " THEN TrimStart(Tail(s)) ELSE s

RECURSIVE TrimEnd(_)
TrimEnd(s) ==
    IF s # <<>> /\ s[Len(s)] = " " THEN TrimEnd(SubSeq(s, 1, Len(s) - 1)) ELSE s

Trim(s) == TrimEnd(TrimStart(s))

\* String.prototype.startsWith('@')
StartsWithAt(s) == s # <<>> /\ Head(s) = "@"

\* finalInstagram: the trimmed handle, with '@' put in front of a non-empty
\* one that does not start with it
FinalInstagram(instagram) ==
    LET trimmed == Trim(instagram)
    IN  IF trimmed # <<>> /\ ~StartsWithAt(trimmed)
        THEN <<"@">> \o trimmed
        ELSE trimmed

\* the value parseFloat gives for no digits at all
NaN == [nan |-> TRUE]

\* one decimal digit
DigitValue(c) ==
    CASE c = "0" -> 0 [] c = "1" -> 1 [] c = "2" -> 2 [] c = "3" -> 3
      [] c = "4" -> 4 [] c = "5" -> 5 [] c = "6" -> 6 [] c = "7" -> 7
      [] c = "8" -> 8 [] c = "9" -> 9

\* parseFloat on the value of the number input: a run of digits
RECURSIVE ParseDigits(_)
ParseDigits(s) ==
    IF s = <<>> THEN 0
    ELSE 10 * ParseDigits(SubSeq(s, 1, Len(s) - 1)) + DigitValue(s[Len(s)])

ParseFloat(s) == IF s = <<>> THEN NaN ELSE ParseDigits(s)

\* the object handleAddClient hands to addDoc (createdAt left out)
NewSale(form) ==
    [firstName |-> Trim(form.firstName),
     lastName |-> Trim(form.lastName),
     instagram |-> FinalInstagram(form.instagram),
     valor |-> ParseFloat(form.valor)]

\* what an administrator can type into the fields of the form
FormValues ==
    [firstName |-> {<<>>, <<" ">>, <<" ", "A">>},
     lastName |-> {<<>>, <<"C">>},
     instagram |-> {<<>>, <<" ", "x">>, <<"@", "x">>},
     valor |-> {<<>>, <<"1", "2">>}]

\* handleFormChange
HandleFormChange(name, value) ==
    /\ SalesMounted
    /\ formState' = [formState EXCEPT ![name] = value]
    /\ UNCHANGED <<appVars, adminModalVars, noticeVars>>
    /\ UNCHANGED <<store, nextRef, adminPage, isSubmitting, addJob, addOutcome,
                   showKeyPrompt, keyInputKey, keyError, deleteJob,
                   deleteOutcome>>

\* handleAddClient up to its await: the submit button is enabled only while
\* isSubmitting is false
HandleAddClient ==
    /\ SalesMounted
    /\ ~isSubmitting
    /\ addJob = Idle
    /\ IF \/ formState.firstName = <<>>
          \/ formState.lastName = <<>>
          \/ formState.valor = <<>>
          \/ ~db
       THEN UNCHANGED <<isSubmitting, addJob>>
       ELSE /\ isSubmitting' = TRUE
            /\ addJob' = [stage |-> "addDoc", mounted |-> TRUE,
                           sale |-> NewSale(formState)]
    /\ UNCHANGED <<appVars, adminModalVars, noticeVars>>
    /\ UNCHANGED <<store, nextRef, adminPage, formState, addOutcome,
                   showKeyPrompt, keyInputKey, keyError, deleteJob,
                   deleteOutcome>>

\* handleAddClient after its await: addDoc resolved, the document is stored
\* and the form is cleared, or addDoc rejected; finally setIsSubmitting(false)
AddDocSettled(ok) ==
    /\ addJob.stage = "addDoc"
    /\ ok => Len(store) < MaxStore
    /\ store' = IF ok THEN Append(store, [ref |-> nextRef, data |-> addJob.sale])
                ELSE store
    /\ nextRef' = IF ok THEN nextRef + 1 ELSE nextRef
    /\ addOutcome' = IF ok THEN "written" ELSE "failed"
    /\ addJob' = Idle
    /\ IF addJob.mounted
       THEN /\ formState' = IF ok THEN EmptyForm ELSE formState
            /\ isSubmitting' = FALSE
       ELSE UNCHANGED <<formState, isSubmitting>>
    /\ UNCHANGED <<appVars, adminModalVars, noticeVars>>
    /\ UNCHANGED <<adminPage, showKeyPrompt, keyInputKey, keyError, deleteJob,
                   deleteOutcome>>

NextAdd ==
    \/ InitEffectInvalidConfig
    \/ InitEffectOk
    \/ \E dbWasSet \in BOOLEAN : InitEffectThrows(dbWasSet)
    \/ \E user \in BOOLEAN, signInOk \in BOOLEAN : OnAuthStateChanged(user, signInOk)
    \/ SubscribeEffect
    \/ OnClientsSnapshot(StoreDocs(store))
    \/ OnClientsError
    \/ \E p \in {"ranking", "dashboard"} : SetPage(p)
    \/ \E value \in AdminInputs : AdminInputChange(value)
    \/ AdminKeyConfirm
    \/ \E p \in {"sales", "notice", "whatsapp"} : SetAdminPage(p)
    \/ \E name \in DOMAIN FormValues :
           \E value \in FormValues[name] : HandleFormChange(name, value)
    \/ HandleAddClient
    \/ \E ok \in BOOLEAN : AddDocSettled(ok)

SpecAdd == Init /\ [][NextAdd]_vars

----------------------------------------------------------------------------
(* Vocabulary of the properties *)

Idx == 1..Len(clients)

\* the identity key of every record of the snapshot
Keys == [i \in Idx |-> Identifier(clients[i])]

\* the grouped set before the sort and the truncation
Grouped == ClientTotals(clients)

\* the records that are aggregated under the key id (keys: Keys)
Contributors(keys, id) == {i \in DOMAIN keys : keys[i] = id}

FirstContributor(keys, id) ==
    CHOOSE i \in Contributors(keys, id) : \A j \in Contributors(keys, id) : i <= j

LastContributor(keys, id) ==
    CHOOSE i \in Contributors(keys, id) : \A j \in Contributors(keys, id) : j <= i

\* the amount of a sale record, an absent amount counting as 0
Amount(i) == IF "valor" \in DOMAIN clients[i] THEN clients[i].valor ELSE 0

RECURSIVE SumAmounts(_)
SumAmounts(S) ==
    IF S = {} THEN 0
    ELSE LET i == CHOOSE x \in S : TRUE IN Amount(i) + SumAmounts(S \ {i})

RECURSIVE SumTotals(_)
SumTotals(entries) ==
    IF entries = <<>> THEN 0
    ELSE Head(entries).totalValor + SumTotals(Tail(entries))

\* the keys of the ranking's entries
RankedIds == {rankedClients[k].id : k \in 1..Len(rankedClients)}

\* the entries of the grouped set (grouped: Grouped) that the truncation
\* leaves out
LeftOut(grouped) == {g \in 1..Len(grouped) : grouped[g].id \notin RankedIds}

\* a name component compared without letter case; an absent one equals only
\* an absent one
NameComponent(r, f) == IF f \in DOMAIN r THEN <<ToLowerCase(r[f])>> ELSE <<>>

\* the identity tuple (firstName, lastName, handle-or-empty), case-insensitive
IdentityTuple(r) ==
    <<NameComponent(r, "firstName"), NameComponent(r, "lastName"),
      ToLowerCase(IF "instagram" \in DOMAIN r THEN r.instagram ELSE <<>>)>>

\* the name fields of a sale record or of a ranking entry
NamesOf(r) == [f \in DOMAIN r \cap NameFields |-> r[f]]

\* a sale record the data model calls malformed: an absent or empty first or
\* last name, or an amount that is not a number
Malformed(r) ==
    \/ "firstName" \notin DOMAIN r
    \/ "lastName" \notin DOMAIN r
    \/ "valor" \notin DOMAIN r
    \/ r.firstName = <<>>
    \/ r.lastName = <<>>

WellFormed(r) == ~Malformed(r)

RankingShown == renderPage.component = "RankingPanel"

----------------------------------------------------------------------------
(* C1 *)

\* C1: every ranking entry's total is the sum of the amounts (absent = 0) of
\* exactly the snapshot's records that share its identity key, and the totals
\* of the full grouped set add up to the sum of all amounts.
C1_TotalsAreSums ==
    LET keys == Keys
    IN  /\ \A k \in 1..Len(rankedClients) :
              rankedClients[k].totalValor =
                  SumAmounts(Contributors(keys, rankedClients[k].id))
        /\ SumTotals(Grouped) = SumAmounts(Idx)

\* an entry summed from several records, one of them without an amount
C1_Witness ==
    LET keys == Keys
    IN  \E k \in 1..Len(rankedClients) :
            /\ Cardinality(Contributors(keys, rankedClients[k].id)) >= 2
            /\ \E i \in Contributors(keys, rankedClients[k].id) :
                  "valor" \notin DOMAIN clients[i]
            /\ rankedClients[k].totalValor > 0

(* C2 *)

\* C2: two records whose names and handle (absent handle = empty) are equal
\* up to letter case contribute to one entry, and no two entries of the
\* grouped set have identities that are equal ignoring case.
C2_CaseVariantsShareOneEntry ==
    LET keys == Keys
        grouped == Grouped
        tuples == [i \in Idx |-> IdentityTuple(clients[i])]
        entryTuples == [g \in 1..Len(grouped) |-> IdentityTuple(grouped[g])]
    IN  /\ \A i \in Idx :
              Cardinality({g \in 1..Len(grouped) : grouped[g].id = keys[i]}) = 1
        /\ \A i \in Idx, j \in Idx : tuples[i] = tuples[j] => keys[i] = keys[j]
        /\ \A g \in 1..Len(grouped), h \in 1..Len(grouped) :
              g # h => entryTuples[g] # entryTuples[h]

\* two records that differ in letter case only, grouped in the ranking
C2_Witness ==
    /\ Len(rankedClients) >= 1
    /\ \E i \in Idx, j \in Idx :
          /\ IdentityTuple(clients[i]) = IdentityTuple(clients[j])
          /\ NamesOf(clients[i]) # NamesOf(clients[j])

(* C3 *)

\* C3: records are merged into one entry only if their identity tuples are
\* equal component by component, ignoring case.
C3_OnlyEqualTuplesMerge ==
    LET keys == Keys
        tuples == [i \in Idx |-> IdentityTuple(clients[i])]
    IN  \A i \in Idx, j \in Idx : keys[i] = keys[j] => tuples[i] = tuples[j]

(* C4 *)

\* C4: the ranking is sorted by total in non-increasing order, and no entry
\* left out by the truncation has a total greater than an entry that was kept.
C4_SortedDescending ==
    LET grouped == Grouped
        leftOut == LeftOut(grouped)
    IN  /\ \A k \in 1..(Len(rankedClients) - 1) :
              rankedClients[k].totalValor >= rankedClients[k + 1].totalValor
        /\ \A g \in leftOut, k \in 1..Len(rankedClients) :
              rankedClients[k].totalValor >= grouped[g].totalValor

\* a snapshot that is not in ranking order, sorted, with entries left out
C4_Witness ==
    LET grouped == Grouped
    IN  /\ LeftOut(grouped) # {}
        /\ \E g \in 1..(Len(grouped) - 1) :
              grouped[g].totalValor < grouped[g + 1].totalValor
        /\ rankedClients[1].totalValor
              > rankedClients[Len(rankedClients)].totalValor

(* C5 *)

\* C5: the ranking has min(number of distinct identities, 10) entries; an
\* empty snapshot gives an empty ranking, which the ranking page shows as the
\* empty message and not as an error.
C5_LengthIsMinOfIdentitiesAndTen ==
    /\ LET n == Cardinality({Identifier(clients[i]) : i \in Idx})
       IN  Len(rankedClients) = IF n < TopN THEN n ELSE TopN
    /\ (snapshotCount > 0 /\ snapshotDocs = <<>> /\ error = "" /\ page = "ranking")
          => /\ RankingShown
             /\ renderPage.props.clients = <<>>
             /\ RankingPanel(renderPage.props).empty
    /\ (RankingShown /\ snapshotDocs # <<>>) => ~RankingPanel(renderPage.props).empty

\* more identities than the ranking holds
C5_Witness ==
    /\ Cardinality({Identifier(clients[i]) : i \in Idx}) > TopN
    /\ Len(rankedClients) = TopN
    /\ RankingShown

(* C6 *)

\* C6: for every entry of rank 4..10, the value handed to RankingPanel does
\* not carry the numeric total; for ranks 1..3 the total is disclosed.
C6_TotalsRedactedBeforePanel ==
    RankingShown =>
        LET props == renderPage.props
            items == RankingPanel(props).items
        IN  \A k \in 1..Len(props.clients) :
                /\ k <= VisibleCount => ~items[k].amount.private
                /\ k > VisibleCount => "totalValor" \notin DOMAIN props.clients[k]

(* C7 *)

\* C7: a malformed record (absent or empty first or last name, non-numeric
\* amount) creates no entry and adds to no total, the other records being
\* aggregated as usual: the ranking is that of the well-formed records.
C7_MalformedRecordsExcluded ==
    rankedClients = RankedClientsMemo(SelectSeq(clients, WellFormed))

(* C8 *)

\* C8 as stated: an entry shows the names and handle of the last record of
\* its identity in the snapshot's order.
C8_NamesOfLastRecord ==
    LET keys == Keys
    IN  \A k \in 1..Len(rankedClients) :
            NamesOf(rankedClients[k]) =
                NamesOf(clients[LastContributor(keys, rankedClients[k].id)])

\* C8 amended: an entry shows the names and handle of the first record of
\* its identity in the snapshot's order.
C8_NamesOfFirstRecord ==
    LET keys == Keys
    IN  \A k \in 1..Len(rankedClients) :
            NamesOf(rankedClients[k]) =
                NamesOf(clients[FirstContributor(keys, rankedClients[k].id)])

\* an entry whose first and last record spell the names differently
C8_Witness ==
    LET keys == Keys
    IN  \E k \in 1..Len(rankedClients) :
            NamesOf(clients[FirstContributor(keys, rankedClients[k].id)]) #
                NamesOf(clients[LastContributor(keys, rankedClients[k].id)])

(* C9 *)

\* C9: of two identities with equal totals, the one whose first record comes
\* earlier in the snapshot is ranked first, also across the top-10 cut.
C9_TiesInFirstSeenOrder ==
    LET keys == Keys
        grouped == Grouped
        leftOut == LeftOut(grouped)
        rankedFirst == [k \in 1..Len(rankedClients) |->
                           FirstContributor(keys, rankedClients[k].id)]
        groupedFirst == [g \in 1..Len(grouped) |->
                            FirstContributor(keys, grouped[g].id)]
    IN  /\ \A k \in 1..Len(rankedClients), l \in 1..Len(rankedClients) :
              (k < l /\ rankedClients[k].totalValor = rankedClients[l].totalValor)
                 => rankedFirst[k] < rankedFirst[l]
        /\ \A g \in leftOut, k \in 1..Len(rankedClients) :
              rankedClients[k].totalValor = grouped[g].totalValor
                 => rankedFirst[k] < groupedFirst[g]

\* a tie between a kept entry and an entry left out, and a tie between two
\* kept entries that a larger total separates in the snapshot
C9_Witness ==
    LET grouped == Grouped
    IN  /\ \E g \in LeftOut(grouped) :
              rankedClients[Len(rankedClients)].totalValor = grouped[g].totalValor
        /\ \E a \in Idx, b \in Idx, c \in Idx :
              /\ a < b /\ b < c
              /\ Amount(a) = Amount(c)
              /\ Amount(b) > Amount(a)
              /\ Identifier(clients[a]) # Identifier(clients[c])

(* C10 *)

\* C10: the ranking handed to RankingPanel is the ranking of the snapshot
\* delivered last, whatever was delivered before.
C10_RankingOfLatestSnapshot ==
    RankingShown =>
        renderPage.props.clients = RankedClientsMemo(ToClients(snapshotDocs))

\* a ranking shown after at least two deliveries, the last one not empty
C10_Witness ==
    /\ RankingShown
    /\ snapshotCount >= 2
    /\ Len(snapshotDocs) >= 2
    /\ Len(rankedClients) >= 2

(* C11 *)

\* C11: the step that sets the error (invalid configuration, failed
\* initialisation, error callback of the clients subscription) leaves clients
\* as it was and ends loading; the error is never cleared afterwards, and
\* while it is set renderPage gives the error message, whatever the page.
C11_FailureShowsError ==
    [][ /\ (error = "" /\ error' # "") => (clients' = clients /\ ~isLoading')
        /\ (error # "") => (error' = error /\ ~isLoading')
        /\ (error' # "") => /\ renderPage'.component = "ErrorMessage"
                             /\ renderPage'.props.text = error' ]_vars

\* the subscription failed after a snapshot had been stored, and the
\* dashboard is selected by an authenticated administrator
C11_Witness ==
    /\ error = ERR_CLIENTS
    /\ Len(clients) >= 2
    /\ page = "dashboard"
    /\ isAdminAuthenticated
    /\ renderPage.component = "ErrorMessage"

(* C12 *)

\* C12: AdminDashboard is rendered only while isAdminAuthenticated holds; the
\* flag holds only if the session flag 'isAdminAuthed' is set, which at the
\* start means it was set before; it turns true only in a handleConfirm of
\* AdminKeyPromptModal whose input equals ADMIN_KEY; a handleConfirm with
\* another input leaves it false, sets the error and clears the input; and
\* once true it stays true.
C12_AdminOnlyByKey ==
    /\ [](isAdminAuthenticated => sessionIsAdminAuthed)
    /\ [](renderPage.component = "AdminDashboard" => isAdminAuthenticated)
    /\ [][ /\ isAdminAuthenticated => isAdminAuthenticated'
           /\ (~isAdminAuthenticated /\ isAdminAuthenticated')
                  => (AdminKeyConfirm /\ adminInputKey = ADMIN_KEY)
           /\ (AdminKeyConfirm /\ adminInputKey # ADMIN_KEY)
                  => /\ ~isAdminAuthenticated'
                     /\ adminError' = ERR_ADMIN_KEY
                     /\ adminInputKey' = "" ]_vars

\* a visitor without the session flag typed a wrong key, was refused, and the
\* dashboard is not rendered
C12_Witness ==
    /\ ~sessionIsAdminAuthed
    /\ ~isAdminAuthenticated
    /\ page = "dashboard"
    /\ adminError = ERR_ADMIN_KEY
    /\ adminInputKey = ""
    /\ renderPage.component = "AdminKeyPromptModal"

(* C13 *)

C14_DeleteAllGuarded ==
    [][ /\ (deleteJob = Idle /\ deleteJob' # Idle)
               => (KeyPromptConfirm /\ keyInputKey = SECRET_KEY)
        /\ (store' # store) => (deleteJob.stage = "commit" /\ DeleteAllCommit(TRUE))
        /\ (KeyPromptConfirm /\ keyInputKey # SECRET_KEY)
               => /\ store' = store
                  /\ deleteJob' = deleteJob
                  /\ keyError' = ERR_SECRET_KEY
                  /\ showKeyPrompt'
        /\ KeyPromptCancel => (store' = store /\ deleteJob' = deleteJob)
        /\ (deleteJob # Idle /\ deleteJob' = Idle /\ deleteJob.mounted)
               => ~showKeyPrompt' ]_vars

\* a handleDeleteAll whose commit failed has ended: the records are still
\* stored and the prompt is closed
C14_Witness ==
    /\ deleteOutcome = "failed"
    /\ deleteJob = Idle
    /\ store # <<>>
    /\ SalesMounted
    /\ ~showKeyPrompt

(* C15 *)

\* C15: every record handleAddClient stored has a firstName and a lastName
\* that are not empty after trimming and a handle that is empty or starts
\* with '@'; and isSubmitting is false whenever no addDoc is awaited.
C15_WrittenRecordsValid ==
    /\ \A i \in 1..Len(store) :
           /\ Trim(store[i].data.firstName) # <<>>
           /\ Trim(store[i].data.lastName) # <<>>
           /\ (store[i].data.instagram = <<>> \/ StartsWithAt(store[i].data.instagram))
    /\ (SalesMounted /\ addJob = Idle) => ~isSubmitting

====
